---- MODULE Spec2Model ----
(***************************************************************************)
(* PaokinatorWeb: the Flask front end (src/app.py) that proxies a guessing *)
(* game to an upstream game server and keeps a few values in the session,  *)
(* and the moderator blueprint (src/mod_routes.py) over a hosted database. *)
(* One action per route handler; the upstream's and the database's answers *)
(* are the handlers' inputs.                                               *)
(***************************************************************************)
EXTENDS Integers, Sequences, FiniteSets, TLC

VARIABLES
    GAME_SERVER_URL,  \* app.py:19, TRUE iff the environment variable is set
    supabase,         \* mod_routes.py:12-14, TRUE iff the database client exists
    session,          \* the Flask session of the one browser
    db,               \* the hosted database's tables
    route,            \* the handler that served the last request
    form,             \* the form the last request submitted (submission routes)
    calls,            \* the upstream calls the last request made, in order
    resp              \* the response to the last request

vars == <<GAME_SERVER_URL, supabase, session, db, route, form, calls, resp>>

\* ------------------------------------------------------------------ bounds
\* Longest top_predictions list the upstream returns in the game specification.
MaxPreds == 1
\* Longest cached top_predictions list the /isitthis specification draws.
MaxList == 3
\* Number of rows in each of the features and items tables.
NumRows == 2
\* Most answer_for_<item> fields in a /submit_question form.
MaxAnswers == 2
\* Most feature_name_<i> fields present in a /submit_teaching form.
MaxFeatures == 2

\* ------------------------------------------------------------------ values
\* Python's None, and a key that is absent from a dict, a form or the session.
NoValue == "<none>"

SessionIds == {"abc", "xyz"}
Domains == {"animals", "cars"}
Names == {"Lion", "lion", "Cat"}
Details == {"timeout"}

\* str.lower() on the strings of the model.
Lower(s) ==
    CASE s = "Lion" -> "lion"
      [] s = "Cat" -> "cat"
      [] OTHER -> s

\* Python truthiness of a string-or-None value: None and "" are falsy.
Truthy(v) == v # NoValue /\ v # ""

\* dict.get(key, default): the default only when the key is absent.
GetOr(v, default) == IF v = NoValue THEN default ELSE v

\* A prediction entry is a dict whose 'animal' key may be absent or empty.
EntryNames == Names \cup {"", NoValue}
Entry(a) == [animal |-> a]

\* The sequences over S of length at most n.
SeqsUpTo(S, n) == UNION {[1..k -> S] : k \in 0..n}

\* ------------------------------------------------------------------ JSON
\* json.dumps of a list of prediction entries, as a token sequence:
\* "[" entry* "]", an entry being "{" "}" (no animal key) or "{" name "}".
RECURSIVE DumpEntries(_)
DumpEntries(list) ==
    IF list = <<>> THEN <<>>
    ELSE (IF Head(list).animal = NoValue
          THEN <<"{", "}">>
          ELSE <<"{", Head(list).animal, "}">>) \o DumpEntries(Tail(list))

JsonDumps(list) == <<"[">> \o DumpEntries(list) \o <<"]">>

\* json.loads of such a token sequence: [ok, value]; ok = FALSE is
\* json.JSONDecodeError.
RECURSIVE LoadEntries(_)
LoadEntries(toks) ==
    IF toks = <<>> THEN [ok |-> TRUE, value |-> <<>>]
    ELSE IF Len(toks) >= 2 /\ toks[1] = "{" /\ toks[2] = "}"
    THEN LET rest == LoadEntries(SubSeq(toks, 3, Len(toks)))
         IN [ok |-> rest.ok, value |-> <<Entry(NoValue)>> \o rest.value]
    ELSE IF Len(toks) >= 3 /\ toks[1] = "{" /\ toks[3] = "}"
    THEN LET rest == LoadEntries(SubSeq(toks, 4, Len(toks)))
         IN [ok |-> rest.ok, value |-> <<Entry(toks[2])>> \o rest.value]
    ELSE [ok |-> FALSE, value |-> <<>>]

JsonLoads(toks) ==
    IF Len(toks) >= 2 /\ toks[1] = "[" /\ toks[Len(toks)] = "]"
    THEN LoadEntries(SubSeq(toks, 2, Len(toks) - 1))
    ELSE [ok |-> FALSE, value |-> <<>>]

\* ------------------------------------------------------------------ upstream
\* An upstream JSON object; a key the object lacks is NoValue (<<>> for
\* top_predictions: an absent and an empty list are both falsy and both
\* relayed as they came).
Json(status, sid, dom, guess, animal, preds) ==
    [error |-> NoValue, details |-> NoValue, status |-> status,
     session_id |-> sid, domain_name |-> dom, guess |-> guess,
     animal |-> animal, top_predictions |-> preds]

NoJson == Json(NoValue, NoValue, NoValue, NoValue, NoValue, <<>>)

\* requests raised: the helpers' uniform error object.
RequestFailed(d) ==
    [NoJson EXCEPT !.error = "Upstream game server request failed", !.details = d]

NotConfigured == [NoJson EXCEPT !.error = "Game server is not configured."]

Failures == {RequestFailed(d) : d \in Details}

\* What the network can answer to each endpoint.
PredLists == SeqsUpTo({Entry(a) : a \in {"Lion", "Cat"}}, MaxPreds)
Guesses == {NoValue, "", "Lion", "Cat"}

QuestionResponses ==
    Failures \cup {Json(NoValue, NoValue, NoValue, g, NoValue, p) :
                      g \in Guesses, p \in PredLists}
StartResponses ==
    Failures \cup {NoJson}
             \cup {Json(NoValue, s, d, NoValue, NoValue, <<>>) :
                      s \in SessionIds, d \in Domains}
DomainsResponses == Failures \cup {NoJson}
AnswerResponses ==
    Failures \cup {Json("ok", NoValue, NoValue, NoValue, NoValue, <<>>)}
             \cup {Json("guess_correct", NoValue, NoValue, NoValue, a, <<>>) :
                      a \in {NoValue, "Lion"}}
RejectResponses ==
    Failures \cup {Json("ask_to_continue", NoValue, NoValue, g, NoValue, p) :
                      g \in Guesses, p \in PredLists}
ContinueResponses ==
    Failures \cup {Json(s, NoValue, NoValue, NoValue, NoValue, <<>>) :
                      s \in {"continuing", "error"}}
AckResponses == Failures \cup {NoJson}
\* GET /items_for_questions/{domain}: {items: [string]}.
ItemsResponses ==
    Failures \cup {[error |-> NoValue, details |-> NoValue, items |-> <<"Lion", "Cat">>]}
\* POST /suggest_feature: status 'ok', another status, or a failed request.
SuggestResponses ==
    Failures \cup {Json(st, NoValue, NoValue, NoValue, NoValue, <<>>) :
                      st \in {"ok", "error"}}

\* get_game_server_data / post_game_server_data: without a base URL the
\* helper answers by itself, otherwise with what the network gave (r).
get_game_server_data(r) == IF ~GAME_SERVER_URL THEN NotConfigured ELSE r
post_game_server_data(r) == IF ~GAME_SERVER_URL THEN NotConfigured ELSE r

\* One upstream call as the handler made it: the endpoint and the id put in
\* its path, the game_session_id the session (sess) held when it was made,
\* the body's animal_name, and what the helper returned.
Call(sess, ep, id, arg, r) ==
    [endpoint |-> ep, id |-> id, held |-> sess.game_session_id,
     arg |-> arg, response |-> r]

\* ------------------------------------------------------------------ session
EmptySession ==
    [game_session_id |-> NoValue, domain_name |-> NoValue,
     top_predictions |-> <<>>, last_guess |-> NoValue,
     is_mod |-> FALSE, mod_username |-> NoValue]

\* ------------------------------------------------------------------ responses
Response(kind, target, status) ==
    [kind |-> kind, target |-> target, status |-> status,
     error |-> NoValue, redirect_url |-> NoValue,
     arg |-> NoValue, arg2 |-> NoValue, data |-> NoJson, predictions |-> <<>>,
     flashes |-> <<>>]

\* flash(message, category): the message's kind, the count it reports and the
\* names it lists.
Flash(category, message, count, names) ==
    [category |-> category, message |-> message, count |-> count, names |-> names]

Redirect(target) == Response("redirect", target, 302)
RedirectWith(target, a, b) == [Redirect(target) EXCEPT !.arg = a, !.arg2 = b]
Render(template) == Response("render", template, 200)
RenderError(details) == [Render("error.html") EXCEPT !.arg = details]
RenderData(template, data) == [Render(template) EXCEPT !.data = data]
JsonError(msg, status) == [Response("json", NoValue, status) EXCEPT !.error = msg]
JsonRedirect(target, a) ==
    [Response("json", NoValue, 200) EXCEPT !.redirect_url = target, !.arg = a]
Jsonify(data) == [Response("json", NoValue, 200) EXCEPT !.data = data]

\* ------------------------------------------------------------------ handlers
\* A request that submits none of the forms the model keeps.
NoForm == [kind |-> "none"]

\* What every handler leaves: the route served, the upstream calls made, the
\* session as saved with the response, and the response.
Served(r, c, s, rsp) ==
    /\ route' = r
    /\ form' = NoForm
    /\ calls' = c
    /\ session' = s
    /\ resp' = rsp
    /\ UNCHANGED <<GAME_SERVER_URL, supabase, db>>

\* GET /
index(r) ==
    LET cleared == EmptySession
        data == get_game_server_data(r)
        c == <<Call(cleared, "/domains", NoValue, NoValue, data)>>
    IN IF Truthy(data.error)
       THEN Served("index", c, cleared, Render("error.html"))
       ELSE Served("index", c, cleared, Render("index.html"))

\* Mutant of start_game: stores the domain the form asked for, not the one the
\* upstream returned.
start_game_stores_form_domain(form_domain, r) ==
    IF ~GAME_SERVER_URL
    THEN Served("start_game", <<>>, session, Render("error.html"))
    ELSE LET domain_name == GetOr(form_domain, "animals")
             data == post_game_server_data(r)
             c == <<Call(session, "/start", NoValue, domain_name, data)>>
         IN IF Truthy(data.session_id)
            THEN Served("start_game", c,
                        [session EXCEPT !.game_session_id = data.session_id,
                                        !.domain_name = domain_name],
                        Redirect("play_game"))
            ELSE Served("start_game", c, session, Render("error.html"))

\* POST /start; form_domain is the form's domain_name (NoValue: not sent).
start_game(form_domain, r) ==
    IF ~GAME_SERVER_URL
    THEN Served("start_game", <<>>, session, Render("error.html"))
    ELSE LET domain_name == GetOr(form_domain, "animals")
             data == post_game_server_data(r)
             c == <<Call(session, "/start", NoValue, domain_name, data)>>
         IN IF Truthy(data.session_id)
            THEN Served("start_game", c,
                        [session EXCEPT !.game_session_id = data.session_id,
                                        !.domain_name = data.domain_name],
                        Redirect("play_game"))
            ELSE Served("start_game", c, session, Render("error.html"))

\* Mutant of play_game: without a game_session_id it renders the error page
\* instead of redirecting to the start page.
play_game_no_redirect(r) ==
    LET game_session_id == session.game_session_id
    IN IF ~Truthy(game_session_id)
       THEN Served("play_game", <<>>, session, RenderError(NoValue))
       ELSE LET data == get_game_server_data(r)
                c == <<Call(session, "/question", game_session_id, NoValue, data)>>
                s1 == IF data.top_predictions # <<>>
                      THEN [session EXCEPT
                               !.top_predictions = JsonDumps(data.top_predictions)]
                      ELSE session
                s2 == IF Truthy(data.guess)
                      THEN [s1 EXCEPT !.last_guess = data.guess]
                      ELSE s1
            IN IF Truthy(data.error)
               THEN Served("play_game", c, session, RenderError(data.details))
               ELSE Served("play_game", c, s2, RenderData("play.html", data))

\* GET /play
play_game(r) ==
    LET game_session_id == session.game_session_id
    IN IF ~Truthy(game_session_id)
       THEN Served("play_game", <<>>, session, Redirect("index"))
       ELSE LET data == get_game_server_data(r)
                c == <<Call(session, "/question", game_session_id, NoValue, data)>>
                s1 == IF data.top_predictions # <<>>
                      THEN [session EXCEPT
                               !.top_predictions = JsonDumps(data.top_predictions)]
                      ELSE session
                s2 == IF Truthy(data.guess)
                      THEN [s1 EXCEPT !.last_guess = data.guess]
                      ELSE s1
            IN IF Truthy(data.error)
               THEN Served("play_game", c, session, RenderError(data.details))
               ELSE Served("play_game", c, s2, RenderData("play.html", data))

\* POST /answer (deprecated form route)
answer == Served("answer", <<>>, session, Redirect("play_game"))

\* Mutant of api_answer: the early return on a failed /answer call is missing.
api_answer_ignores_error(r1, r2) ==
    LET game_session_id == session.game_session_id
    IN IF ~Truthy(game_session_id)
       THEN Served("api_answer", <<>>, session, JsonError("No game session", 400))
       ELSE
       LET answer_response == post_game_server_data(r1)
           c1 == Call(session, "/answer", game_session_id, NoValue, answer_response)
           next_game_state == get_game_server_data(r2)
           c2 == Call(session, "/question", game_session_id, NoValue, next_game_state)
           s1 == IF next_game_state.top_predictions # <<>>
                 THEN [session EXCEPT
                          !.top_predictions = JsonDumps(next_game_state.top_predictions)]
                 ELSE session
           s2 == IF Truthy(next_game_state.guess)
                 THEN [s1 EXCEPT !.last_guess = next_game_state.guess]
                 ELSE s1
       IN IF answer_response.status = "guess_correct"
          THEN Served("api_answer", <<c1>>, session,
                      JsonRedirect("confirm_win_route", answer_response.animal))
          ELSE IF Truthy(next_game_state.error)
          THEN Served("api_answer", <<c1, c2>>, session,
                      JsonRedirect("error", next_game_state.details))
          ELSE Served("api_answer", <<c1, c2>>, s2, Jsonify(next_game_state))

\* POST /api/answer
api_answer(r1, r2) ==
    LET game_session_id == session.game_session_id
    IN IF ~Truthy(game_session_id)
       THEN Served("api_answer", <<>>, session, JsonError("No game session", 400))
       ELSE
       LET answer_response == post_game_server_data(r1)
           c1 == Call(session, "/answer", game_session_id, NoValue, answer_response)
           next_game_state == get_game_server_data(r2)
           c2 == Call(session, "/question", game_session_id, NoValue, next_game_state)
           s1 == IF next_game_state.top_predictions # <<>>
                 THEN [session EXCEPT
                          !.top_predictions = JsonDumps(next_game_state.top_predictions)]
                 ELSE session
           s2 == IF Truthy(next_game_state.guess)
                 THEN [s1 EXCEPT !.last_guess = next_game_state.guess]
                 ELSE s1
       IN IF answer_response.status = "guess_correct"
          THEN Served("api_answer", <<c1>>, session,
                      JsonRedirect("confirm_win_route", answer_response.animal))
          ELSE IF Truthy(answer_response.error)
          THEN Served("api_answer", <<c1>>, session,
                      JsonError(GetOr(answer_response.details, "Failed to post answer"), 500))
          ELSE IF Truthy(next_game_state.error)
          THEN Served("api_answer", <<c1, c2>>, session,
                      JsonRedirect("error", next_game_state.details))
          ELSE Served("api_answer", <<c1, c2>>, s2, Jsonify(next_game_state))

\* Mutant of api_reject_guess: a failed call is reported with the fixed message,
\* not with the upstream's details.
api_reject_guess_drops_details(guess, r) ==
    LET game_session_id == session.game_session_id
    IN IF ~Truthy(game_session_id)
       THEN Served("api_reject_guess", <<>>, session, JsonError("No game session", 400))
       ELSE IF ~Truthy(guess)
       THEN Served("api_reject_guess", <<>>, session,
                   JsonError("No animal name provided", 400))
       ELSE
       LET reject_response == post_game_server_data(r)
           c == <<Call(session, "/reject", game_session_id, guess, reject_response)>>
       IN IF Truthy(reject_response.error)
          THEN Served("api_reject_guess", c, session,
                      JsonError("Failed to reject guess", 500))
          ELSE Served("api_reject_guess", c, session, Jsonify(reject_response))

\* POST /api/reject_guess; guess is the request JSON's 'guess'.
api_reject_guess(guess, r) ==
    LET game_session_id == session.game_session_id
    IN IF ~Truthy(game_session_id)
       THEN Served("api_reject_guess", <<>>, session, JsonError("No game session", 400))
       ELSE IF ~Truthy(guess)
       THEN Served("api_reject_guess", <<>>, session,
                   JsonError("No animal name provided", 400))
       ELSE
       LET reject_response == post_game_server_data(r)
           c == <<Call(session, "/reject", game_session_id, guess, reject_response)>>
       IN IF Truthy(reject_response.error)
          THEN Served("api_reject_guess", c, session,
                      JsonError(GetOr(reject_response.details, "Failed to reject guess"), 500))
          ELSE Served("api_reject_guess", c, session, Jsonify(reject_response))

\* Mutant of api_continue_game: the next state's guess is not stored.
api_continue_game_forgets_guess(r1, r2) ==
    LET game_session_id == session.game_session_id
    IN IF ~Truthy(game_session_id)
       THEN Served("api_continue_game", <<>>, session, JsonError("No game session", 400))
       ELSE
       LET continue_response == post_game_server_data(r1)
           c1 == Call(session, "/continue", game_session_id, NoValue, continue_response)
           next_game_state == get_game_server_data(r2)
           c2 == Call(session, "/question", game_session_id, NoValue, next_game_state)
           s1 == IF next_game_state.top_predictions # <<>>
                 THEN [session EXCEPT
                          !.top_predictions = JsonDumps(next_game_state.top_predictions)]
                 ELSE session
       IN IF continue_response.status # "continuing"
          THEN Served("api_continue_game", <<c1>>, session,
                      JsonError(GetOr(continue_response.details,
                                      "Failed to set continue mode"), 500))
          ELSE IF Truthy(next_game_state.error)
          THEN Served("api_continue_game", <<c1, c2>>, session,
                      JsonRedirect("error", next_game_state.details))
          ELSE Served("api_continue_game", <<c1, c2>>, s1, Jsonify(next_game_state))

\* POST /api/continue_game
api_continue_game(r1, r2) ==
    LET game_session_id == session.game_session_id
    IN IF ~Truthy(game_session_id)
       THEN Served("api_continue_game", <<>>, session, JsonError("No game session", 400))
       ELSE
       LET continue_response == post_game_server_data(r1)
           c1 == Call(session, "/continue", game_session_id, NoValue, continue_response)
           next_game_state == get_game_server_data(r2)
           c2 == Call(session, "/question", game_session_id, NoValue, next_game_state)
           s1 == IF next_game_state.top_predictions # <<>>
                 THEN [session EXCEPT
                          !.top_predictions = JsonDumps(next_game_state.top_predictions)]
                 ELSE session
           s2 == IF Truthy(next_game_state.guess)
                 THEN [s1 EXCEPT !.last_guess = next_game_state.guess]
                 ELSE s1
       IN IF continue_response.status # "continuing"
          THEN Served("api_continue_game", <<c1>>, session,
                      JsonError(GetOr(continue_response.details,
                                      "Failed to set continue mode"), 500))
          ELSE IF Truthy(next_game_state.error)
          THEN Served("api_continue_game", <<c1, c2>>, session,
                      JsonRedirect("error", next_game_state.details))
          ELSE Served("api_continue_game", <<c1, c2>>, s2, Jsonify(next_game_state))

\* Mutant of api_undo: the game_session_id check is missing.
api_undo_unchecked(r) ==
    LET game_session_id == session.game_session_id
        undo_response == post_game_server_data(r)
        c == <<Call(session, "/undo", game_session_id, NoValue, undo_response)>>
        s1 == IF undo_response.top_predictions # <<>>
              THEN [session EXCEPT
                       !.top_predictions = JsonDumps(undo_response.top_predictions)]
              ELSE session
        s2 == IF Truthy(undo_response.guess)
              THEN [s1 EXCEPT !.last_guess = undo_response.guess]
              ELSE s1
    IN IF Truthy(undo_response.error)
       THEN Served("api_undo", c, session,
                   JsonError(GetOr(undo_response.details, "Failed to undo"), 500))
       ELSE Served("api_undo", c, s2, Jsonify(undo_response))

\* POST /api/undo
api_undo(r) ==
    LET game_session_id == session.game_session_id
    IN IF ~Truthy(game_session_id)
       THEN Served("api_undo", <<>>, session, JsonError("No game session", 400))
       ELSE
       LET undo_response == post_game_server_data(r)
           c == <<Call(session, "/undo", game_session_id, NoValue, undo_response)>>
           s1 == IF undo_response.top_predictions # <<>>
                 THEN [session EXCEPT
                          !.top_predictions = JsonDumps(undo_response.top_predictions)]
                 ELSE session
           s2 == IF Truthy(undo_response.guess)
                 THEN [s1 EXCEPT !.last_guess = undo_response.guess]
                 ELSE s1
       IN IF Truthy(undo_response.error)
          THEN Served("api_undo", c, session,
                      JsonError(GetOr(undo_response.details, "Failed to undo"), 500))
          ELSE Served("api_undo", c, s2, Jsonify(undo_response))

\* POST /guess_result; response and guess are form fields.
guess_result(response, guess, r) ==
    IF response = "yes"
    THEN Served("guess_result", <<>>, session,
                RedirectWith("confirm_win_route", guess, NoValue))
    ELSE LET game_session_id == session.game_session_id
             c == IF Truthy(game_session_id)
                  THEN <<Call(session, "/reject", game_session_id, guess,
                              post_game_server_data(r))>>
                  ELSE <<>>
         IN Served("guess_result", c, session, Redirect("is_it_this"))

\* Mutant of FilterPredictions: the comparison is case-sensitive.
FilterPredictions_case_sensitive(predictions, last_guess) ==
    SelectSeq(predictions,
              LAMBDA p : Truthy(p.animal)
                         /\ p.animal # (IF Truthy(last_guess) THEN last_guess ELSE ""))

\* The list comprehension of /isitthis.
FilterPredictions(predictions, last_guess) ==
    SelectSeq(predictions,
              LAMBDA p : Truthy(p.animal)
                         /\ Lower(p.animal)
                              # Lower(IF Truthy(last_guess) THEN last_guess ELSE ""))

\* GET /isitthis
is_it_this ==
    LET top_predictions_json == IF session.top_predictions = <<>>
                                THEN <<"[", "]">>
                                ELSE session.top_predictions
        last_guess == session.last_guess
        predictions == JsonLoads(top_predictions_json)
        filtered_predictions == IF predictions.ok
                                THEN FilterPredictions(predictions.value, last_guess)
                                ELSE <<>>
    IN Served("is_it_this", <<>>, session,
              [Render("isitthis.html") EXCEPT !.predictions = filtered_predictions])

\* GET /this
this == Served("this", <<>>, session, Render("this.html"))

\* Mutant of learn: the game_session_id check is missing.
learn_unchecked(animal_name, r) ==
    LET game_session_id == session.game_session_id
    IN IF ~Truthy(animal_name)
       THEN Served("learn", <<>>, session, Redirect("this"))
       ELSE LET c == <<Call(session, "/learn", game_session_id, animal_name,
                            post_game_server_data(r))>>
                domain_name == GetOr(session.domain_name, "animals")
            IN Served("learn", c, session,
                      RedirectWith("thank_you", animal_name, domain_name))

\* POST /learn; animal_name is the form field.
learn(animal_name, r) ==
    LET game_session_id == session.game_session_id
    IN IF ~Truthy(game_session_id)
       THEN Served("learn", <<>>, session, Redirect("index"))
       ELSE IF ~Truthy(animal_name)
       THEN Served("learn", <<>>, session, Redirect("this"))
       ELSE LET c == <<Call(session, "/learn", game_session_id, animal_name,
                            post_game_server_data(r))>>
                domain_name == GetOr(session.domain_name, "animals")
            IN Served("learn", c, session,
                      RedirectWith("thank_you", animal_name, domain_name))

\* GET /confirm_win/<animal_name>
confirm_win_from_list(animal_name) ==
    Served("confirm_win_from_list", <<>>, session,
           RedirectWith("confirm_win_route", animal_name, NoValue))

\* Mutant of confirm_win_route: the whole session is cleared, not only the
\* game id.
confirm_win_route_clears_session(query_animal, r) ==
    LET animal == GetOr(query_animal, "your animal")
        game_session_id == session.game_session_id
        domain_name == GetOr(session.domain_name, "animals")
        page == [Render("win.html") EXCEPT !.arg = animal, !.arg2 = domain_name]
    IN IF Truthy(game_session_id)
       THEN LET c == <<Call(session, "/win", game_session_id, animal,
                            post_game_server_data(r))>>
            IN Served("confirm_win_route", c, EmptySession, page)
       ELSE Served("confirm_win_route", <<>>, session, page)

\* GET /confirm_win; query_animal is the query string's animal.
confirm_win_route(query_animal, r) ==
    LET animal == GetOr(query_animal, "your animal")
        game_session_id == session.game_session_id
        domain_name == GetOr(session.domain_name, "animals")
        page == [Render("win.html") EXCEPT !.arg = animal, !.arg2 = domain_name]
    IN IF Truthy(game_session_id)
       THEN LET c == <<Call(session, "/win", game_session_id, animal,
                            post_game_server_data(r))>>
                popped == [session EXCEPT !.game_session_id = NoValue]
            IN Served("confirm_win_route", c, popped, page)
       ELSE Served("confirm_win_route", <<>>, session, page)

\* GET /thank_you
thank_you(query_animal, query_domain) ==
    LET animal == GetOr(query_animal, "that")
        domain_name == GetOr(query_domain, "animals")
    IN Served("thank_you", <<>>, [session EXCEPT !.game_session_id = NoValue],
              [Render("thank_you.html") EXCEPT !.arg = animal, !.arg2 = domain_name])

\* GET /add_questions/<animal>; r.items is the upstream's item list.
add_questions(animal, r) ==
    LET domain_name == GetOr(session.domain_name, "animals")
        other_items_data == get_game_server_data(r)
        c == <<Call(session, "/items_for_questions", domain_name, NoValue,
                    other_items_data)>>
        other_animals == IF ~Truthy(other_items_data.error)
                         THEN SelectSeq(other_items_data.items,
                                        LAMBDA item : Lower(item) # Lower(animal))
                         ELSE <<>>
    IN IF ~Truthy(domain_name)
       THEN Served("add_questions", <<>>, session,
                   [Redirect("index") EXCEPT
                       !.flashes = <<Flash("error", "session expired", 0, <<>>)>>])
       ELSE Served("add_questions", c, session,
                   [Render("add_questions.html") EXCEPT
                       !.arg = animal, !.arg2 = domain_name,
                       !.predictions = other_animals])

\* GET /teach_me/<animal>
teach_me(animal, r) ==
    LET domain_name == GetOr(session.domain_name, "animals")
        data == get_game_server_data(r)
        c == <<Call(session, "/features_for_data_collection", domain_name, animal, data)>>
    IN IF ~Truthy(domain_name)
       THEN Served("teach_me", <<>>, session,
                   [Redirect("index") EXCEPT
                       !.flashes = <<Flash("error", "session expired", 0, <<>>)>>])
       ELSE IF Truthy(data.error)
       THEN Served("teach_me", c, session,
                   [Redirect("index") EXCEPT
                       !.flashes = <<Flash("error", "could not load questions", 0, <<>>)>>])
       ELSE Served("teach_me", c, session,
                   [Render("teach_me.html") EXCEPT !.arg = animal, !.arg2 = domain_name])

\* ------------------------------------------------------------------ submission routes
\* FUZZY_MAP, the numbers written as Python prints them.
FUZZY_MAP ==
    [yes |-> "1.0", probably |-> "0.75", sometimes |-> "0.5",
     rarely |-> "0.25", no |-> "0.0"]

\* Mutant of FuzzyValue: an unknown answer gets a default instead of None.
FuzzyValue_with_default(answer_value) ==
    IF answer_value \in DOMAIN FUZZY_MAP THEN FUZZY_MAP[answer_value] ELSE "0.5"

\* FUZZY_MAP.get(answer_value)
FuzzyValue(answer_value) ==
    IF answer_value \in DOMAIN FUZZY_MAP THEN FUZZY_MAP[answer_value] ELSE NoValue

\* The payload of one /suggest_feature call.
Payload(domain_name, feature_name, question_text, item_name, fuzzy_value) ==
    [domain_name |-> domain_name, feature_name |-> feature_name,
     question_text |-> question_text, item_name |-> item_name,
     fuzzy_value |-> fuzzy_value]

\* post_game_server_data('/suggest_feature', payload)
SuggestCall(sess, payload, r) ==
    [endpoint |-> "/suggest_feature", id |-> NoValue, held |-> sess.game_session_id,
     arg |-> payload.item_name, payload |-> payload,
     response |-> post_game_server_data(r)]

\* Mutant of PostAll: the loop stops at the first call that fails.
PostAll_stops_at_failure(sess, payloads, rs) ==
    LET all == [k \in 1..Len(payloads) |-> SuggestCall(sess, payloads[k], rs[k])]
        bad == {k \in 1..Len(all) : all[k].response.status # "ok"}
    IN IF bad = {} THEN all
       ELSE SubSeq(all, 1, CHOOSE k \in bad : \A j \in bad : k <= j)

\* The posting loop both routes share: payload k gets the network's answer
\* rs[k]; a response whose status is not 'ok' is collected as an error.
PostAll(sess, payloads, rs) ==
    [k \in 1..Len(payloads) |-> SuggestCall(sess, payloads[k], rs[k])]

\* What a submission handler leaves.
ServedForm(r, f, c, rsp) ==
    /\ route' = r
    /\ form' = f
    /\ calls' = c
    /\ resp' = rsp
    /\ UNCHANGED <<GAME_SERVER_URL, supabase, session, db>>

\* POST /submit_question; f.answers are the form's answer_for_<item> fields in
\* form order.
submit_question(f, rs) ==
    LET domain_name == f.domain_name
        item_name == f.animal
        feature_name == f.feature_name
        question_text == f.question_text
        answered == SelectSeq(f.answers, LAMBDA a : a.answer # "idk")
        invalid == SelectSeq(answered, LAMBDA a : FuzzyValue(a.answer) = NoValue)
        valid == SelectSeq(answered, LAMBDA a : FuzzyValue(a.answer) # NoValue)
        invalid_flashes ==
            [k \in 1..Len(invalid) |->
                Flash("error", "invalid answer", 0, <<invalid[k].item>>)]
        payloads_to_submit ==
            [k \in 1..Len(valid) |->
                Payload(domain_name, feature_name, question_text,
                        valid[k].item, FuzzyValue(valid[k].answer))]
        main_answer_provided ==
            \E k \in 1..Len(valid) : Lower(valid[k].item) = Lower(item_name)
        c == PostAll(session, payloads_to_submit, rs)
        failed == SelectSeq(c, LAMBDA x : x.response.status # "ok")
        errors == [k \in 1..Len(failed) |-> failed[k].payload.item_name]
        success_count == Len(c) - Len(failed)
    IN IF ~(Truthy(domain_name) /\ Truthy(item_name)
              /\ Truthy(feature_name) /\ Truthy(question_text))
       THEN IF item_name = NoValue
            THEN \* url_for('add_questions', animal=None) cannot be built: the
                 \* BuildError is caught by the route's except clause.
                 ServedForm("submit_question", f, <<>>,
                            [RenderError("internal error") EXCEPT
                                !.flashes = <<Flash("error", "all fields required", 0, <<>>)>>])
            ELSE ServedForm("submit_question", f, <<>>,
                            [RedirectWith("add_questions", item_name, NoValue) EXCEPT
                                !.flashes = <<Flash("error", "all fields required", 0, <<>>)>>])
       ELSE IF ~main_answer_provided
       THEN ServedForm("submit_question", f, <<>>,
                       [RedirectWith("add_questions", item_name, NoValue) EXCEPT
                           !.flashes = invalid_flashes
                              \o <<Flash("error", "main answer required", 0, <<item_name>>)>>])
       ELSE ServedForm("submit_question", f, c,
                       [RedirectWith("thank_you", item_name, domain_name) EXCEPT
                           !.flashes = invalid_flashes
                              \o <<IF errors # <<>>
                                   THEN Flash("warning", "submitted with errors",
                                              success_count, errors)
                                   ELSE Flash("success", "submitted",
                                              success_count, <<>>)>>])

\* range(5) of submit_teaching.
TeachingSlots == 5

\* Mutant of submit_teaching: a form that yields no payload is sent back to
\* the start page as invalid.
submit_teaching_needs_payload(f, rs) ==
    LET domain_name == f.domain_name
        animal_name == f.animal_name
        indexes == SelectSeq([k \in 1..TeachingSlots |-> k - 1],
                             LAMBDA i : /\ f.slots[i].present
                                        /\ f.slots[i].answer # "idk"
                                        /\ FuzzyValue(f.slots[i].answer) # NoValue)
        payloads_to_submit ==
            [k \in 1..Len(indexes) |->
                Payload(domain_name, indexes[k], indexes[k], animal_name,
                        FuzzyValue(f.slots[indexes[k]].answer))]
        c == PostAll(session, payloads_to_submit, rs)
        failed == SelectSeq(c, LAMBDA x : x.response.status # "ok")
        errors == [k \in 1..Len(failed) |-> failed[k].payload.feature_name]
        success_count == Len(c) - Len(failed)
    IN IF ~Truthy(domain_name) \/ ~Truthy(animal_name) \/ payloads_to_submit = <<>>
       THEN ServedForm("submit_teaching", f, <<>>,
                       [Redirect("index") EXCEPT
                           !.flashes = <<Flash("error", "invalid data", 0, <<>>)>>])
       ELSE ServedForm("submit_teaching", f, c,
                       [RedirectWith("thank_you", animal_name, domain_name) EXCEPT
                           !.flashes = <<IF errors # <<>>
                                         THEN Flash("warning", "submitted with errors",
                                                    success_count, errors)
                                         ELSE Flash("success", "submitted",
                                                    success_count, <<>>)>>])

\* POST /submit_teaching; f.slots[i] is the form's feature_name_i (present or
\* not) with its answer_i.
submit_teaching(f, rs) ==
    LET domain_name == f.domain_name
        animal_name == f.animal_name
        indexes == SelectSeq([k \in 1..TeachingSlots |-> k - 1],
                             LAMBDA i : /\ f.slots[i].present
                                        /\ f.slots[i].answer # "idk"
                                        /\ FuzzyValue(f.slots[i].answer) # NoValue)
        payloads_to_submit ==
            [k \in 1..Len(indexes) |->
                Payload(domain_name, indexes[k], indexes[k], animal_name,
                        FuzzyValue(f.slots[indexes[k]].answer))]
        c == PostAll(session, payloads_to_submit, rs)
        failed == SelectSeq(c, LAMBDA x : x.response.status # "ok")
        errors == [k \in 1..Len(failed) |-> failed[k].payload.feature_name]
        success_count == Len(c) - Len(failed)
    IN IF ~Truthy(domain_name) \/ ~Truthy(animal_name)
       THEN ServedForm("submit_teaching", f, <<>>,
                       [Redirect("index") EXCEPT
                           !.flashes = <<Flash("error", "invalid data", 0, <<>>)>>])
       ELSE ServedForm("submit_teaching", f, c,
                       [RedirectWith("thank_you", animal_name, domain_name) EXCEPT
                           !.flashes = <<IF errors # <<>>
                                         THEN Flash("warning", "submitted with errors",
                                                    success_count, errors)
                                         ELSE Flash("success", "submitted",
                                                    success_count, <<>>)>>])

\* GET /error
error(message) ==
    Served("error", <<>>, session,
           RenderError(GetOr(message, "An unknown error occurred.")))

\* ------------------------------------------------------------------ moderator blueprint
Ids == 1..NumRows
\* Ids a URL can carry: 0 names no row.
UrlIds == 0..NumRows

\* The moderators table: username -> password_hash.
Moderators == [u \in {"alice"} |-> "pw1"]

\* A features or items row is "suggested", "active" or "deleted" (no row);
\* item_features holds <<item_id, feature_id>> rows.
InitDb ==
    [moderators |-> Moderators,
     features |-> [i \in Ids |-> "suggested"],
     items |-> [i \in Ids |-> "suggested"],
     item_features |-> Ids \X Ids]

\* update({'status': 'active'}).eq('id', id) on a table: rows that exist and match.
UpdateActive(table, id) ==
    [i \in DOMAIN table |-> IF i = id /\ table[i] # "deleted" THEN "active" ELSE table[i]]

\* delete().eq('id', id) on a table.
DeleteRow(table, id) ==
    [i \in DOMAIN table |-> IF i = id THEN "deleted" ELSE table[i]]

\* delete().eq('item_id', id) on item_features.
DeleteLinks(links, id) == {l \in links : l[1] # id}

\* What a moderator handler leaves.
ServedMod(r, s, d, rsp) ==
    /\ route' = r
    /\ form' = NoForm
    /\ calls' = <<>>
    /\ session' = s
    /\ db' = d
    /\ resp' = rsp
    /\ UNCHANGED <<GAME_SERVER_URL, supabase>>

\* GET/POST /login; raises: the select's execute() raised.
login(method, username, password, raises) ==
    IF method = "POST"
    THEN IF ~supabase
         THEN ServedMod("login", session, db, Render("login.html"))
         ELSE IF ~Truthy(username) \/ ~Truthy(password)
         THEN ServedMod("login", session, db, Render("login.html"))
         ELSE IF ~raises /\ username \in DOMAIN db.moderators
                         /\ db.moderators[username] = password
         THEN ServedMod("login",
                        [session EXCEPT !.is_mod = TRUE, !.mod_username = username],
                        db, Redirect("moderator.mod_panel"))
         ELSE ServedMod("login", session, db, Render("login.html"))
    ELSE ServedMod("login", session, db, Render("login.html"))

\* GET /logout
logout ==
    ServedMod("logout",
              [session EXCEPT !.is_mod = FALSE, !.mod_username = NoValue],
              db, Redirect("moderator.login"))

\* GET /mod
mod_panel ==
    IF ~session.is_mod
    THEN ServedMod("mod_panel", session, db, Redirect("moderator.login"))
    ELSE ServedMod("mod_panel", session, db, Render("mod.html"))

\* GET /mod/approve/<feature_id>; raises: execute() raised.
mod_approve_feature(feature_id, raises) ==
    IF ~session.is_mod
    THEN ServedMod("mod_approve_feature", session, db, Redirect("moderator.login"))
    ELSE IF ~supabase
    THEN ServedMod("mod_approve_feature", session, db, Redirect("moderator.mod_panel"))
    ELSE ServedMod("mod_approve_feature", session,
                   IF raises THEN db
                   ELSE [db EXCEPT !.features = UpdateActive(db.features, feature_id)],
                   Redirect("moderator.mod_panel"))

\* GET /mod/reject/<feature_id>
mod_reject_feature(feature_id, raises) ==
    IF ~session.is_mod
    THEN ServedMod("mod_reject_feature", session, db, Redirect("moderator.login"))
    ELSE IF ~supabase
    THEN ServedMod("mod_reject_feature", session, db, Redirect("moderator.mod_panel"))
    ELSE ServedMod("mod_reject_feature", session,
                   IF raises THEN db
                   ELSE [db EXCEPT !.features = DeleteRow(db.features, feature_id)],
                   Redirect("moderator.mod_panel"))

\* GET /mod/approve/item/<item_id>
mod_approve_item(item_id, raises) ==
    IF ~session.is_mod
    THEN ServedMod("mod_approve_item", session, db, Redirect("moderator.login"))
    ELSE IF ~supabase
    THEN ServedMod("mod_approve_item", session, db, Redirect("moderator.mod_panel"))
    ELSE ServedMod("mod_approve_item", session,
                   IF raises THEN db
                   ELSE [db EXCEPT !.items = UpdateActive(db.items, item_id)],
                   Redirect("moderator.mod_panel"))

\* Mutant of mod_reject_item: the is_mod check is missing.
mod_reject_item_unchecked(item_id, raises) ==
    IF ~supabase
    THEN ServedMod("mod_reject_item", session, db, Redirect("moderator.mod_panel"))
    ELSE LET d1 == IF raises = 1 THEN db
                   ELSE [db EXCEPT !.item_features = DeleteLinks(db.item_features, item_id)]
             d2 == IF raises \in {1, 2} THEN d1
                   ELSE [d1 EXCEPT !.items = DeleteRow(d1.items, item_id)]
         IN ServedMod("mod_reject_item", session, d2, Redirect("moderator.mod_panel"))

\* Mutant of mod_reject_item: each delete has a try of its own, so the items
\* delete still runs after the item_features delete raised.
mod_reject_item_separate_tries(item_id, raises) ==
    IF ~session.is_mod
    THEN ServedMod("mod_reject_item", session, db, Redirect("moderator.login"))
    ELSE IF ~supabase
    THEN ServedMod("mod_reject_item", session, db, Redirect("moderator.mod_panel"))
    ELSE LET d1 == IF raises = 1 THEN db
                   ELSE [db EXCEPT !.item_features = DeleteLinks(db.item_features, item_id)]
             d2 == IF raises = 2 THEN d1
                   ELSE [d1 EXCEPT !.items = DeleteRow(d1.items, item_id)]
         IN ServedMod("mod_reject_item", session, d2, Redirect("moderator.mod_panel"))

\* GET /mod/reject/item/<item_id>; raises is the delete that raised:
\* 0 none, 1 the item_features delete, 2 the items delete.
mod_reject_item(item_id, raises) ==
    IF ~session.is_mod
    THEN ServedMod("mod_reject_item", session, db, Redirect("moderator.login"))
    ELSE IF ~supabase
    THEN ServedMod("mod_reject_item", session, db, Redirect("moderator.mod_panel"))
    ELSE LET d1 == IF raises = 1 THEN db
                   ELSE [db EXCEPT !.item_features = DeleteLinks(db.item_features, item_id)]
             d2 == IF raises \in {1, 2} THEN d1
                   ELSE [d1 EXCEPT !.items = DeleteRow(d1.items, item_id)]
         IN ServedMod("mod_reject_item", session, d2, Redirect("moderator.mod_panel"))

\* ------------------------------------------------------------------ specifications
NoResponse == Response("none", NoValue, 0)

Init ==
    /\ GAME_SERVER_URL \in BOOLEAN
    /\ supabase \in BOOLEAN
    /\ session = EmptySession
    /\ db = InitDb
    /\ route = "none"
    /\ form = NoForm
    /\ calls = <<>>
    /\ resp = NoResponse

FormNames == {NoValue, "", "Lion"}
Usernames == {NoValue, "alice", "bob"}
Passwords == {NoValue, "pw1", "bad"}

\* The game: every route of app.py's game flow, with login and logout
\* sharing the session.
Next ==
    \/ \E r \in DomainsResponses : index(r)
    \/ \E d \in Domains \cup {NoValue}, r \in StartResponses : start_game(d, r)
    \/ \E r \in QuestionResponses : play_game(r)
    \/ answer
    \/ \E r1 \in AnswerResponses, r2 \in QuestionResponses : api_answer(r1, r2)
    \/ \E g \in FormNames, r \in RejectResponses : api_reject_guess(g, r)
    \/ \E r1 \in ContinueResponses, r2 \in QuestionResponses : api_continue_game(r1, r2)
    \/ \E r \in QuestionResponses : api_undo(r)
    \/ \E a \in {"yes", "no"}, g \in FormNames, r \in AckResponses : guess_result(a, g, r)
    \/ is_it_this
    \/ this
    \/ \E a \in FormNames, r \in AckResponses : learn(a, r)
    \/ \E a \in {"Lion"} : confirm_win_from_list(a)
    \/ \E a \in {NoValue, "Lion"}, r \in AckResponses : confirm_win_route(a, r)
    \/ \E a \in {NoValue, "Lion"}, d \in Domains \cup {NoValue} : thank_you(a, d)
    \/ \E r \in ItemsResponses : add_questions("lion", r)
    \/ \E r \in AckResponses : teach_me("Lion", r)
    \/ \E m \in {NoValue, "timeout"} : error(m)
    \/ \E m \in {"GET", "POST"}, p \in {"pw1", "bad"} : login(m, "alice", p, FALSE)
    \/ logout

Spec == Init /\ [][Next]_vars

\* The submission routes, which read nothing but the form: one request to a
\* fresh process, over every form and every run of upstream answers.
AnswerValues == {"yes", "probably", "sometimes", "rarely", "no", "idk", "maybe"}
FormItems == {"Lion", "lion", "Cat"}

AnswerSeqs ==
    {a \in SeqsUpTo([item : FormItems, answer : AnswerValues], MaxAnswers) :
        \A i, j \in 1..Len(a) : i # j => a[i].item # a[j].item}

QuestionForms ==
    {[kind |-> "question", domain_name |-> x[1], animal |-> x[2],
      feature_name |-> x[3], question_text |-> x[4], answers |-> a] :
        x \in {<<"animals", "Lion", "has_tail", "Does it have a tail?">>,
               <<NoValue, "Lion", "has_tail", "Does it have a tail?">>,
               <<"animals", NoValue, "has_tail", "Does it have a tail?">>,
               <<"animals", "Lion", "", "Does it have a tail?">>,
               <<"animals", "Lion", "has_tail", NoValue>>},
        a \in AnswerSeqs}

SlotValues ==
    {[present |-> FALSE, answer |-> NoValue]}
        \cup {[present |-> TRUE, answer |-> a] : a \in AnswerValues \cup {NoValue}}

TeachingForms ==
    {[kind |-> "teaching", domain_name |-> x[1], animal_name |-> x[2], slots |-> sl] :
        x \in {<<"animals", "Lion">>, <<NoValue, "Lion">>, <<"animals", "">>},
        sl \in {t \in [0..(TeachingSlots - 1) -> SlotValues] :
                   Cardinality({i \in DOMAIN t : t[i].present}) <= MaxFeatures}}

FirstRequest == route = "none"

NextSubmit ==
    \/ /\ FirstRequest
       /\ \E f \in QuestionForms, rs \in [1..MaxAnswers -> SuggestResponses] :
             submit_question(f, rs)
    \/ /\ FirstRequest
       /\ \E f \in TeachingForms, rs \in [1..MaxFeatures -> SuggestResponses] :
             submit_teaching(f, rs)

InitSubmit == Init /\ supabase

SpecSubmit == InitSubmit /\ [][NextSubmit]_vars

\* The moderator blueprint, with / (which clears the session) beside it.
NextMod ==
    \/ \E r \in DomainsResponses : index(r)
    \/ \E m \in {"GET", "POST"}, u \in Usernames, p \in Passwords, x \in BOOLEAN :
          login(m, u, p, x)
    \/ logout
    \/ mod_panel
    \/ \E i \in UrlIds, x \in BOOLEAN : mod_approve_feature(i, x)
    \/ \E i \in UrlIds, x \in BOOLEAN : mod_reject_feature(i, x)
    \/ \E i \in UrlIds, x \in BOOLEAN : mod_approve_item(i, x)
    \/ \E i \in UrlIds, x \in 0..2 : mod_reject_item(i, x)

SpecMod == Init /\ [][NextMod]_vars

\* /isitthis over every session it can meet: any cached list, any last_guess.
CachedLists == SeqsUpTo({Entry(a) : a \in EntryNames}, MaxList) \ {<<>>}

InitIsItThis ==
    /\ GAME_SERVER_URL \in BOOLEAN
    /\ supabase \in BOOLEAN
    /\ \E p \in {<<>>} \cup {JsonDumps(l) : l \in CachedLists}, g \in Names \cup {NoValue} :
          session = [EmptySession EXCEPT !.top_predictions = p, !.last_guess = g]
    /\ db = InitDb
    /\ route = "none"
    /\ form = NoForm
    /\ calls = <<>>
    /\ resp = NoResponse

NextIsItThis == is_it_this

SpecIsItThis == InitIsItThis /\ [][NextIsItThis]_vars

\* ------------------------------------------------------------------ claims
SessionEndpoints ==
    {"/question", "/answer", "/reject", "/continue", "/undo", "/learn", "/win"}
ApiRoutes == {"api_answer", "api_reject_guess", "api_continue_game", "api_undo"}

\* C1: every upstream call a request makes to /question, /answer, /reject,
\* /continue, /undo, /learn or /win is made while the session holds a
\* game_session_id, and carries that id in its path.
C1_CallsCarrySessionId ==
    [][\A i \in DOMAIN calls' :
          calls'[i].endpoint \in SessionEndpoints
             => /\ Truthy(session.game_session_id)
                /\ calls'[i].id = session.game_session_id
                /\ calls'[i].held = calls'[i].id]_vars

C1_Witness ==
    /\ route = "learn"
    /\ Len(calls) = 1
    /\ calls[1].endpoint = "/learn"
    /\ calls[1].id = "xyz"

\* C2 as stated: with no game_session_id in the session, /play, /learn and
\* /confirm_win each answer with a redirect to the start page.
C2_AllRedirectToStart ==
    [][(~Truthy(session.game_session_id)
          /\ route' \in {"play_game", "learn", "confirm_win_route"})
         => resp' = Redirect("index")]_vars

\* C2 amended: with no game_session_id in the session, /play and /learn answer
\* with a redirect to the start page; /confirm_win renders the win page, makes
\* no upstream call and leaves the session as it was.
C2_PlayLearnRedirectWinRenders ==
    [][~Truthy(session.game_session_id)
         => /\ route' \in {"play_game", "learn"}
                 => resp' = Redirect("index") /\ calls' = <<>> /\ session' = session
            /\ route' = "confirm_win_route"
                 => /\ resp'.kind = "render"
                    /\ resp'.target = "win.html"
                    /\ calls' = <<>>
                    /\ session' = session]_vars

C2_Witness ==
    /\ route = "confirm_win_route"
    /\ calls = <<>>
    /\ resp.target = "win.html"
    /\ session.domain_name = "cars"

\* C3: /api/answer, /api/reject_guess, /api/continue_game and /api/undo, called
\* with no game_session_id in the session, return an error payload with status
\* 400, make no upstream call and leave the session unchanged.
C3_ApiWithoutSessionIs400 ==
    [][(~Truthy(session.game_session_id) /\ route' \in ApiRoutes)
         => /\ resp'.kind = "json"
            /\ resp'.status = 400
            /\ Truthy(resp'.error)
            /\ resp'.redirect_url = NoValue
            /\ calls' = <<>>
            /\ session' = session]_vars

C3_Witness ==
    /\ route = "api_continue_game"
    /\ resp.status = 400
    /\ resp.error = "No game session"
    /\ session.domain_name = "animals"
    /\ session.game_session_id = NoValue

\* C4: POST /start. When the upstream response carries a session_id the session
\* then holds it as game_session_id, with the returned domain_name, and the
\* response redirects to /play; when the upstream is unconfigured or the
\* response has no session_id, an error page is rendered and the session is
\* unchanged.
C4_StartStoresOrFails ==
    [][route' = "start_game"
         => IF calls' # <<>> /\ Truthy(calls'[1].response.session_id)
            THEN /\ session'.game_session_id = calls'[1].response.session_id
                 /\ session'.domain_name = calls'[1].response.domain_name
                 /\ resp' = Redirect("play_game")
            ELSE /\ resp'.kind = "render"
                 /\ resp'.target = "error.html"
                 /\ session' = session]_vars

C4_Witness ==
    /\ route = "start_game"
    /\ Len(calls) = 1
    /\ calls[1].arg = "cars"
    /\ calls[1].response.session_id = "abc"
    /\ calls[1].response.domain_name = "animals"
    /\ session.game_session_id = "abc"
    /\ session.domain_name = "animals"
    /\ resp.target = "play_game"

\* The prediction list the session caches, decoded.
CachedPredictions ==
    IF session.top_predictions = <<>> THEN <<>>
    ELSE JsonLoads(session.top_predictions).value

\* shown is cached with entries left out, in cached order, and no entry that
\* Keep holds of is left out.
KeepsInOrder(shown, cached, Keep(_)) ==
    \E f \in [1..Len(shown) -> 1..Len(cached)] :
        /\ \A i, j \in 1..Len(shown) : i < j => f[i] < f[j]
        /\ \A i \in 1..Len(shown) : shown[i] = cached[f[i]]
        /\ \A j \in 1..Len(cached) : Keep(cached[j]) => \E i \in 1..Len(shown) : f[i] = j

\* An entry's name equals last_guess, compared case-insensitively.
NameIsGuess(e, g) == e.animal # NoValue /\ g # NoValue /\ Lower(e.animal) = Lower(g)

\* C5 as stated: the list /isitthis renders has no entry whose name equals
\* last_guess case-insensitively, and has every cached entry whose name
\* differs from last_guess, in the cached order.
C5_ListsAllOthers ==
    route = "is_it_this"
        => /\ \A i \in 1..Len(resp.predictions) :
                 ~NameIsGuess(resp.predictions[i], session.last_guess)
           /\ KeepsInOrder(resp.predictions, CachedPredictions,
                           LAMBDA e : ~NameIsGuess(e, session.last_guess))

\* C5 amended: the list /isitthis renders has no entry whose name equals
\* last_guess case-insensitively and no entry without a name (key absent or
\* empty), and has every cached entry with a non-empty name that differs
\* case-insensitively from last_guess, in the cached order.
C5_ListsAllNamedOthers ==
    route = "is_it_this"
        => /\ \A i \in 1..Len(resp.predictions) :
                 /\ ~NameIsGuess(resp.predictions[i], session.last_guess)
                 /\ Truthy(resp.predictions[i].animal)
           /\ KeepsInOrder(resp.predictions, CachedPredictions,
                           LAMBDA e : Truthy(e.animal)
                                      /\ ~NameIsGuess(e, session.last_guess))

C5_Witness ==
    /\ route = "is_it_this"
    /\ session.last_guess = "Lion"
    /\ CachedPredictions = <<Entry("lion"), Entry("Cat"), Entry(NoValue)>>
    /\ resp.predictions = <<Entry("Cat")>>

\* C6: a moderator mutation route requested while is_mod is not set redirects
\* to /login and changes no table.
ModMutationRoutes ==
    {"mod_approve_feature", "mod_reject_feature", "mod_approve_item", "mod_reject_item"}

C6_NoModNoMutation ==
    [][(~session.is_mod /\ route' \in ModMutationRoutes)
         => /\ resp' = Redirect("moderator.login")
            /\ db' = db
            /\ session' = session]_vars

C6_Witness ==
    /\ route = "mod_reject_item"
    /\ resp = Redirect("moderator.login")
    /\ ~session.is_mod
    /\ supabase
    /\ db.items[1] = "active"
    /\ db.item_features # {}

\* C7 as stated: /api/answer with a game session returns a redirect_url payload
\* only if the upstream /answer response has status guess_correct, and in every
\* other case fetches /question/{id} and returns that next state.
C7_RedirectOnlyOnCorrectGuess ==
    (route = "api_answer" /\ calls # <<>>)
        => /\ resp.redirect_url # NoValue
                 => calls[1].response.status = "guess_correct"
           /\ calls[1].response.status # "guess_correct"
                 => /\ Len(calls) = 2
                    /\ calls[2].endpoint = "/question"
                    /\ calls[2].id = calls[1].id
                    /\ resp = Jsonify(calls[2].response)

\* C7 amended: /api/answer with a game session posts /answer/{id}. If the
\* response has status guess_correct it returns a redirect_url to /confirm_win
\* without fetching; if the response is an error object it returns an error
\* payload with status 500 without fetching; otherwise it fetches /question/{id}
\* and returns that next state, or, when the fetch fails, a redirect_url to the
\* error page.
C7_AnswerOutcomes ==
    (route = "api_answer" /\ calls # <<>>)
        => /\ calls[1].endpoint = "/answer"
           /\ IF calls[1].response.status = "guess_correct"
              THEN /\ Len(calls) = 1
                   /\ resp = JsonRedirect("confirm_win_route", calls[1].response.animal)
              ELSE IF Truthy(calls[1].response.error)
              THEN /\ Len(calls) = 1
                   /\ resp.kind = "json"
                   /\ resp.status = 500
                   /\ Truthy(resp.error)
                   /\ resp.redirect_url = NoValue
              ELSE /\ Len(calls) = 2
                   /\ calls[2].endpoint = "/question"
                   /\ calls[2].id = calls[1].id
                   /\ IF Truthy(calls[2].response.error)
                      THEN resp = JsonRedirect("error", calls[2].response.details)
                      ELSE resp = Jsonify(calls[2].response)

C7_Witness ==
    /\ route = "api_answer"
    /\ Len(calls) = 2
    /\ calls[1].response.status = "ok"
    /\ Truthy(calls[2].response.error)
    /\ resp.redirect_url = "error"

\* What /play does with the state it fetched: top_predictions and last_guess
\* are set from data when data carries a non-empty value, everything else in
\* the session stays.
StoredAsPlay(before, after, data) ==
    after = [before EXCEPT
                !.top_predictions = IF data.top_predictions # <<>>
                                    THEN JsonDumps(data.top_predictions) ELSE @,
                !.last_guess = IF Truthy(data.guess) THEN data.guess ELSE @]

\* A JSON error payload with status 500.
IsError500(rsp) ==
    rsp.kind = "json" /\ rsp.status = 500 /\ Truthy(rsp.error) /\ rsp.redirect_url = NoValue

\* C8 as stated, read of the requests the route answers with a relayed state
\* (status 200, no redirect_url): with a game session, /api/reject_guess,
\* /api/continue_game and /api/undo each make exactly one upstream call, relay
\* its JSON and update top_predictions and last_guess from it as /play does.
C8_OneCallRelayedAndStored ==
    [][(Truthy(session.game_session_id)
          /\ route' \in {"api_reject_guess", "api_continue_game", "api_undo"}
          /\ resp'.status = 200
          /\ resp'.redirect_url = NoValue)
         => /\ Len(calls') = 1
            /\ resp' = Jsonify(calls'[1].response)
            /\ StoredAsPlay(session, session', calls'[1].response)]_vars

\* C8 amended: with a game session, /api/undo makes exactly one upstream call
\* (/undo/{id}), relays its JSON and updates top_predictions and last_guess from
\* it as /play does. /api/reject_guess makes at most one call (/reject/{id};
\* none, and a 400, when no guess is given), relays its JSON and never changes
\* the session. /api/continue_game posts /continue/{id} and, when that reports
\* status continuing, makes a second call, GET /question/{id}; it relays the
\* second response and updates the session from it as /play does. A failed
\* call gives a 500 error payload (a redirect_url to the error page for the
\* /question fetch) and leaves the session unchanged.
C8_RelayPerRoute ==
    [][Truthy(session.game_session_id)
         => /\ route' = "api_undo"
                 => /\ Len(calls') = 1
                    /\ calls'[1].endpoint = "/undo"
                    /\ IF Truthy(calls'[1].response.error)
                       THEN IsError500(resp') /\ session' = session
                       ELSE /\ resp' = Jsonify(calls'[1].response)
                            /\ StoredAsPlay(session, session', calls'[1].response)
            /\ route' = "api_reject_guess"
                 => /\ session' = session
                    /\ Len(calls') <= 1
                    /\ calls' = <<>> => resp'.status = 400
                    /\ calls' # <<>>
                         => /\ calls'[1].endpoint = "/reject"
                            /\ IF Truthy(calls'[1].response.error)
                               THEN IsError500(resp')
                               ELSE resp' = Jsonify(calls'[1].response)
            /\ route' = "api_continue_game"
                 => /\ calls' # <<>>
                    /\ calls'[1].endpoint = "/continue"
                    /\ IF calls'[1].response.status # "continuing"
                       THEN Len(calls') = 1 /\ IsError500(resp') /\ session' = session
                       ELSE /\ Len(calls') = 2
                            /\ calls'[2].endpoint = "/question"
                            /\ IF Truthy(calls'[2].response.error)
                               THEN /\ resp' = JsonRedirect("error", calls'[2].response.details)
                                    /\ session' = session
                               ELSE /\ resp' = Jsonify(calls'[2].response)
                                    /\ StoredAsPlay(session, session', calls'[2].response)]_vars

C8_Witness ==
    /\ route = "api_continue_game"
    /\ Len(calls) = 2
    /\ calls[2].response.guess = "Lion"
    /\ calls[2].response.top_predictions = <<Entry("Cat")>>
    /\ resp = Jsonify(calls[2].response)
    /\ session.last_guess = "Lion"
    /\ session.top_predictions = JsonDumps(<<Entry("Cat")>>)

\* C9 as stated: whenever an upstream call made by a JSON API route returns an
\* error object, the route's response has its error field populated with the
\* upstream's details, and top_predictions and last_guess are unchanged.
C9_ErrorFieldOnEveryFailure ==
    [][route' \in ApiRoutes
         => \A i \in DOMAIN calls' :
               Truthy(calls'[i].response.error)
                  => /\ Truthy(resp'.error)
                     /\ calls'[i].response.details # NoValue
                          => resp'.error = calls'[i].response.details
                     /\ session'.top_predictions = session.top_predictions
                     /\ session'.last_guess = session.last_guess]_vars

\* C9 amended: when the first upstream call of a JSON API route (the POST to
\* /answer, /reject, /continue or /undo) returns an error object, the response
\* is an error payload with status 500 whose error field is the upstream's
\* details; when the follow-up GET /question/{id} of /api/answer or
\* /api/continue_game returns an error object, the response carries no error
\* field but a redirect_url to the error page with the upstream's details. In
\* both cases the session is unchanged.
C9_ErrorFieldOrErrorPage ==
    [][route' \in ApiRoutes
         => \A i \in DOMAIN calls' :
               Truthy(calls'[i].response.error)
                  => /\ i = 1 => /\ IsError500(resp')
                                 /\ calls'[i].response.details # NoValue
                                      => resp'.error = calls'[i].response.details
                     /\ i = 2 => /\ calls'[i].endpoint = "/question"
                                 /\ resp' = JsonRedirect("error", calls'[i].response.details)
                     /\ i <= 2
                     /\ session' = session]_vars

C9_Witness ==
    /\ route = "api_reject_guess"
    /\ Len(calls) = 1
    /\ calls[1].response = RequestFailed("timeout")
    /\ resp = JsonError("timeout", 500)
    /\ session.last_guess = "Cat"

\* C10: /confirm_win with a game_session_id in the session posts the animal to
\* /win/{id} while the session still holds the id, then removes game_session_id
\* and nothing else, whether or not the /win call succeeded.
C10_WinPostedThenOnlyGameIdCleared ==
    [][(Truthy(session.game_session_id) /\ route' = "confirm_win_route")
         => /\ Len(calls') = 1
            /\ calls'[1].endpoint = "/win"
            /\ calls'[1].id = session.game_session_id
            /\ calls'[1].held = session.game_session_id
            /\ calls'[1].arg = resp'.arg
            /\ resp'.target = "win.html"
            /\ session' = [session EXCEPT !.game_session_id = NoValue]]_vars

C10_Witness ==
    /\ route = "confirm_win_route"
    /\ Len(calls) = 1
    /\ Truthy(calls[1].response.error)
    /\ calls[1].arg = "Lion"
    /\ session.game_session_id = NoValue
    /\ session.domain_name = "cars"
    /\ session.last_guess = "Lion"
    /\ session.top_predictions # <<>>
    /\ session.is_mod

\* C11: a /submit_teaching form with a domain and an animal whose every answer
\* is "idk" makes no /suggest_feature call, flashes a success message that
\* reports zero submissions, and redirects to the thank-you page.
C11_AllIdkSubmitsNothing ==
    (/\ route = "submit_teaching"
     /\ Truthy(form.domain_name)
     /\ Truthy(form.animal_name)
     /\ \A i \in DOMAIN form.slots : form.slots[i].present => form.slots[i].answer = "idk")
        => /\ calls = <<>>
           /\ resp.kind = "redirect"
           /\ resp.target = "thank_you"
           /\ Len(resp.flashes) = 1
           /\ resp.flashes[1].category = "success"
           /\ resp.flashes[1].count = 0

C11_Witness ==
    /\ route = "submit_teaching"
    /\ GAME_SERVER_URL
    /\ form.domain_name = "animals"
    /\ form.animal_name = "Lion"
    /\ form.slots[0].present /\ form.slots[0].answer = "idk"
    /\ form.slots[3].present /\ form.slots[3].answer = "idk"
    /\ resp.target = "thank_you"

\* The answers that have a fuzzy value, and the value the claim gives each.
ValidAnswers == {"yes", "probably", "sometimes", "rarely", "no"}
ClaimedFuzzy(a) ==
    CASE a = "yes" -> "1.0"
      [] a = "probably" -> "0.75"
      [] a = "sometimes" -> "0.5"
      [] a = "rarely" -> "0.25"
      [] a = "no" -> "0.0"

\* The submitted answer a /suggest_feature call (c) was made for, if any: the
\* answer_for_<item> field of /submit_question, the answer_<i> field of
\* /submit_teaching.
AnswersFor(c) ==
    IF route = "submit_question"
    THEN {form.answers[j].answer :
             j \in {j \in 1..Len(form.answers) : form.answers[j].item = c.payload.item_name}}
    ELSE {form.slots[i].answer :
             i \in {i \in DOMAIN form.slots :
                       form.slots[i].present /\ i = c.payload.feature_name}}

\* C12: in /submit_question and /submit_teaching every /suggest_feature call
\* carries the fuzzy_value that yes->1.0, probably->0.75, sometimes->0.5,
\* rarely->0.25, no->0.0 gives the submitted answer, and no call is made for
\* an answer outside {yes, probably, sometimes, rarely, no} (idk included).
C12_FuzzyValueIsImageOfAnswer ==
    route \in {"submit_question", "submit_teaching"}
        => \A k \in 1..Len(calls) :
              /\ calls[k].endpoint = "/suggest_feature"
              /\ calls[k].payload.fuzzy_value \in {"1.0", "0.75", "0.5", "0.25", "0.0"}
              /\ AnswersFor(calls[k]) # {}
              /\ \A a \in AnswersFor(calls[k]) :
                    /\ a \in ValidAnswers
                    /\ calls[k].payload.fuzzy_value = ClaimedFuzzy(a)

C12_Witness ==
    /\ route = "submit_question"
    /\ form.answers = <<[item |-> "Lion", answer |-> "rarely"],
                        [item |-> "Cat", answer |-> "maybe"]>>
    /\ Len(calls) = 1
    /\ calls[1].payload.item_name = "Lion"
    /\ calls[1].payload.fuzzy_value = "0.25"

\* The form passed the route's validation.
PassesValidation ==
    IF route = "submit_question"
    THEN /\ Truthy(form.domain_name) /\ Truthy(form.animal)
         /\ Truthy(form.feature_name) /\ Truthy(form.question_text)
         /\ \E j \in 1..Len(form.answers) :
               /\ form.answers[j].answer \in ValidAnswers
               /\ Lower(form.answers[j].item) = Lower(form.animal)
    ELSE Truthy(form.domain_name) /\ Truthy(form.animal_name)

\* The valid non-idk answers of the form, by item (/submit_question) or by
\* slot (/submit_teaching).
ValidSubmitted ==
    IF route = "submit_question"
    THEN {form.answers[j].item :
             j \in {j \in 1..Len(form.answers) : form.answers[j].answer \in ValidAnswers}}
    ELSE {i \in DOMAIN form.slots :
             form.slots[i].present /\ form.slots[i].answer \in ValidAnswers}

CallKey(c) ==
    IF route = "submit_question" THEN c.payload.item_name ELSE c.payload.feature_name

\* C13: once the form passes validation, exactly one /suggest_feature call is
\* made for each valid non-idk answer, whatever the earlier calls returned; the
\* reported success count plus the number of collected errors is the number
\* of calls; and the response redirects to the thank-you page.
C13_EveryAnswerAttempted ==
    (route \in {"submit_question", "submit_teaching"} /\ PassesValidation)
        => /\ \A x \in ValidSubmitted :
                 Cardinality({k \in 1..Len(calls) : CallKey(calls[k]) = x}) = 1
           /\ Len(calls) = Cardinality(ValidSubmitted)
           /\ resp.kind = "redirect"
           /\ resp.target = "thank_you"
           /\ resp.flashes # <<>>
           /\ LET last == resp.flashes[Len(resp.flashes)]
                  failures == {k \in 1..Len(calls) : calls[k].response.status # "ok"}
              IN /\ last.count + Len(last.names) = Len(calls)
                 /\ Len(last.names) = Cardinality(failures)
                 /\ last.category = IF failures = {} THEN "success" ELSE "warning"

C13_Witness ==
    /\ route = "submit_teaching"
    /\ Len(calls) = 2
    /\ Truthy(calls[1].response.error)
    /\ calls[2].response.status = "ok"
    /\ resp.target = "thank_you"
    /\ resp.flashes[1].category = "warning"
    /\ resp.flashes[1].count = 1
    /\ resp.flashes[1].names = <<calls[1].payload.feature_name>>

\* C14: is_mod and mod_username become set only by a POST /login with the
\* stored password of an existing username, stay set until /logout is
\* requested, and no other route creates or destroys them.
C14_ModSessionOnlyByLoginLogout ==
    [][/\ (session'.is_mod # session.is_mod \/ session'.mod_username # session.mod_username)
              => route' \in {"login", "logout"}
       /\ (~session.is_mod /\ session'.is_mod)
              => /\ route' = "login"
                 /\ session'.mod_username \in DOMAIN db.moderators
                 /\ resp' = Redirect("moderator.mod_panel")
       /\ (session.is_mod /\ ~session'.is_mod) => route' = "logout"]_vars

\* C15: rejecting an item deletes its item_features rows first and its items
\* row second and stops at the first delete that fails, so no item_features
\* row ever references an items row the route has deleted, and a request
\* deletes an items row only when it leaves no item_features row for it.
C15_NoLinkToDeletedItem ==
    /\ \A l \in db.item_features : db.items[l[1]] # "deleted"
    /\ \A i \in Ids : db.items[i] = "deleted" => DeleteLinks(db.item_features, i) = db.item_features

\* One item was rejected in full; the other lost its item_features rows and
\* kept its items row, because the second delete failed.
C15_Witness ==
    /\ route = "mod_reject_item"
    /\ session.is_mod
    /\ db.items[1] = "deleted"
    /\ db.items[2] = "suggested"
    /\ db.item_features = {}

\* C16: the top_predictions and last_guess the session holds belong to the
\* game_session_id it holds: a request that puts a new game_session_id into
\* the session, which no upstream response has been addressed to yet, leaves
\* no predictions and no last guess of an earlier game beside it.
C16_CacheBelongsToGame ==
    [][(Truthy(session'.game_session_id)
            /\ session'.game_session_id # session.game_session_id)
          => /\ session'.top_predictions = <<>>
             /\ session'.last_guess = NoValue]_vars

====
